---- MODULE Spec2Model ----
(***************************************************************************)
(* The reminder engine of toki-reminder: the registry of node-schedule     *)
(* jobs (activeReminders), the persisted task records (quick.db), the      *)
(* schedule operation setupReminder, the cancel operation                  *)
(* handleTaskCancellation, the two reconciliation sweeps                   *)
(* (restoreReminders at startup, cleanupStaleReminders every hour) and the *)
(* callback of a job.  Every await of the source is a suspension point:    *)
(* the code between two awaits is one action.  The computation of the next *)
(* run inside setupReminder is followed on its own (SpecResolve).          *)
(***************************************************************************)
EXTENDS Integers, Sequences, FiniteSets, TLC

\* ---------------------------------------------------------------- bounds
\* events of a run: user-triggered schedule and cancel operations, runs of the
\* hourly sweep, invocations of a job callback, storage / network rejections
MaxEvents == 2

\* iterations of the custom branch's day-by-day loop that are followed
MaxAdvance == 8

\* refresh periods of wall clock that are followed
MaxClock == 3

\* setInterval calls of a run
MaxIntervals == 3

\* ---------------------------------------------------------------- values
Owners == {"u1"}
Keys == {<<"u1", "a">>, <<"u1", "b">>}
Owner(k) == k[1]
\* a task of a second owner
OtherKey == <<"u2", "a">>
AllOwners == Owners \cup {Owner(OtherKey)}
AllKeys == Keys \cup {OtherKey}
NoKey == <<"-", "-">>

\* a schedule request: the scheduleType and time arguments of setupReminder
Daily9 == [type |-> "daily", days |-> {}, time |-> "09:00"]
Custom18 == [type |-> "custom", days |-> {1, 3}, time |-> "18:00"]
Weekly9 == [type |-> "weekly", days |-> {}, time |-> "09:00"]
NoTask == [type |-> "none", days |-> {}, time |-> "none"]
Inputs == {Daily9, Custom18, Weekly9}
InitRecord == Daily9

VARIABLES
    storeTasks,       \* db: user_<owner>.tasks.<task>, NoTask when absent
    timezone,         \* db: user_<owner>.timezone is set
    reminderChannel,  \* db: user_<owner>.reminderChannel is set
    activeReminders,  \* the Map reminderId -> job (0: no entry)
    jobs,             \* the node-schedule jobs ever created, by id
    calls,            \* setupReminder activations suspended at an await
    cancels,          \* handleTaskCancellation activations awaiting db.delete
    cleanup,          \* the activation of cleanupStaleReminders
    restore,          \* the ClientReady handler and its restoreReminders
    fires,            \* the invocations of job callbacks
    everStored,       \* keys that had a record: a cancel_task menu can offer them
    events,           \* the events so far (bounds the run)
    raced,            \* keys for which an operation ran while a schedule was suspended
    dead,             \* keys cancelled and not scheduled since
    hist,             \* the last operations that ran in succession
    resolver,         \* one computation of setupReminder's next run, step by step
    activeCountdowns, \* the Map countdownId -> interval handle (0: no entry)
    intervals,        \* the setInterval timers of startCountdownUpdate, by handle
    ticks,            \* interval callbacks suspended at message.edit / message.delete
    minute,           \* the wall clock, in refresh periods (minutes)
    displays,         \* the reminder messages: "none", "shown" or "deleted"
    failed,           \* handles of the intervals whose display update failed
    menu,             \* one pass through the add-task menus, step by step
    formatted         \* one call of formatCountdown: its diff and its result

vars == <<storeTasks, timezone, reminderChannel, activeReminders, jobs, calls,
          cancels, cleanup, restore, fires, everStored, events,
          raced, dead, hist, resolver,
          activeCountdowns, intervals, ticks, minute, displays, failed, menu, formatted>>

\* the state of the engine (all but the resolver's computation)
engine == <<storeTasks, timezone, reminderChannel, activeReminders, jobs, calls,
            cancels, cleanup, restore, fires, everStored, events, raced, dead, hist>>

\* the state of the countdown tickers
countdown == <<activeCountdowns, intervals, ticks, minute, displays, failed>>

\* ---------------------------------------------------------------- helpers
FaultChoices == IF events < MaxEvents THEN {FALSE, TRUE} ELSE {FALSE}
Bump(fault) == IF fault THEN events + 1 ELSE events

LiveJobs(js, k) == {j \in 1..Len(js) : js[j].key = k /\ js[j].armed}
AllLive(js) == {j \in 1..Len(js) : js[j].armed}

\* the schedule, cancel and sweep activations in progress
Running ==
    Cardinality({c \in calls : c.by = "user"}) + Cardinality(cancels)
        + (IF cleanup.pc = "idle" THEN 0 ELSE 1)
        + (IF restore.pc = "done" THEN 0 ELSE 1)

\* no schedule, cancel or sweep is in progress
Quiet == Running = 0

\* ---- history of the operations that ran one after the other
Snapshot(reg, js, st) ==
    [reg |-> reg, live |-> AllLive(js), store |-> st, njobs |-> Len(js)]
NoSnap == [reg |-> [k \in DOMAIN activeReminders |-> 0], live |-> {},
           store |-> [k \in DOMAIN storeTasks |-> NoTask], njobs |-> 0 - 1]
Entry(op, k, input, ok, job) ==
    [op |-> op, key |-> k, input |-> input, ok |-> ok, job |-> job]
Last2(l, e) == IF Len(l) < 2 THEN Append(l, e) ELSE <<l[2], e>>
\* an operation starts: in succession if nothing is in progress
Started ==
    IF Quiet
    THEN [clean |-> TRUE, ops |-> hist.ops,
          before |-> Snapshot(activeReminders, jobs, storeTasks)]
    ELSE [clean |-> FALSE, ops |-> <<>>, before |-> NoSnap]
\* an operation completes
Completed(e) == IF hist.clean THEN [hist EXCEPT !.ops = Last2(@, e)] ELSE hist

Orderings(S) ==
    {s \in [1..Cardinality(S) -> S] : \A i, j \in 1..Cardinality(S) : s[i] = s[j] => i = j}

InFlight(cs, k) == \E c \in cs : c.key = k

\* ---- node-schedule
\* job.cancel(): the pending invocation of the job is dropped
CancelJob(js, j) == [js EXCEPT ![j].armed = FALSE, ![j].cancelled = TRUE]

\* nodeSchedule.scheduleJob(rule, callback): a job armed for the next match
NewJob(c) == [key |-> c.key, input |-> c.input, armed |-> TRUE, cancelled |-> FALSE]

\* node-schedule invokes the callback of a job with a pending invocation
CanFire(j) == jobs[j].armed

\* ---- setupReminder
\* variant: the job being replaced is left running
CancelExistingKeep(js, reg, k) == js

\* first lines: an existing job of the key is cancelled (its entry stays)
CancelExisting(js, reg, k) == IF reg[k] # 0 THEN CancelJob(js, reg[k]) ELSE js

NewCall(by, op, k, input, js, reg) ==
    [by |-> by, op |-> op, key |-> k, input |-> input, pc |-> "tz", job |-> 0,
     replaced |-> IF reg[k] # 0 /\ js[reg[k]].armed THEN reg[k] ELSE 0]

\* variant: a missing timezone does not stop the call
ResolveThrowsShape(c) == c.input.type \in {"weekly", "monthly"}

\* the resolution step throws: no timezone stored (moment().tz(undefined) is
\* undefined), or the weekly / monthly branch reads the undeclared scheduleDay
ResolveThrows(c) ==
    \/ ~timezone[Owner(c.key)]
    \/ c.input.type \in {"weekly", "monthly"}

\* variant: a record already stored for the key is kept
TaskRecordFirst(c) == IF storeTasks[c.key] # NoTask THEN storeTasks[c.key] ELSE c.input

\* the record db.set writes
TaskRecord(c) == c.input

\* ---- sweeps
\* variant: no record is skipped
SkipNone(reg, todo) == todo

\* cleanupStaleReminders: the records skipped because the registry has the key
RECURSIVE SkipRegistered(_, _)
SkipRegistered(reg, todo) ==
    IF todo = <<>> THEN <<>>
    ELSE IF reg[Head(todo).key] # 0 THEN SkipRegistered(reg, Tail(todo))
    ELSE todo

\* err: the keys whose setupReminder threw in the (last) pass
IdleSweep == [pc |-> "idle", todo |-> <<>>, err |-> {}]
DoneSweep == [pc |-> "done", todo |-> <<>>, err |-> {}]

SetSweep(by, v) ==
    IF by = "cleanup" THEN cleanup' = v /\ restore' = restore
    ELSE restore' = v /\ cleanup' = cleanup

\* The loop of a sweep from the record at the head of `rest` on: the sweep
\* ends when no record is left, else it calls setupReminder for the head
\* record, which runs up to its first await in the same turn.
SweepGo(by, rest, err, cs, reg, js, st) ==
    /\ activeReminders' = reg
    /\ storeTasks' = st
    /\ IF rest = <<>>
       THEN /\ calls' = cs
            /\ jobs' = js
            /\ raced' = raced
            /\ dead' = dead
            /\ hist' = Completed(Entry(by, NoKey, NoTask, err = {}, 0))
            /\ SetSweep(by, [IF by = "cleanup" THEN IdleSweep ELSE DoneSweep
                               EXCEPT !.err = err])
       ELSE LET k == Head(rest).key IN
            /\ calls' = cs \cup {NewCall(by, 0, k, Head(rest).input, js, reg)}
            /\ jobs' = CancelExisting(js, reg, k)
            /\ raced' = IF InFlight(cs, k) THEN raced \cup {k} ELSE raced
            /\ dead' = dead \ {k}
            /\ hist' = hist
            /\ SetSweep(by, [pc |-> "await", todo |-> rest, err |-> err])

\* A setupReminder activation returns (ok) or throws (~ok) to its caller:
\* handleTimeChoice, the loop of cleanupStaleReminders (one try around the
\* whole loop) or the loop of restoreReminders (one try per record).
Finish(c, ok, reg, js, st) ==
    LET cs == calls \ {c} IN
    CASE c.by = "user" ->
            /\ calls' = cs
            /\ jobs' = js
            /\ activeReminders' = reg
            /\ storeTasks' = st
            /\ hist' = Completed(Entry("schedule", c.key, c.input, ok, c.job))
            /\ UNCHANGED <<cleanup, restore, raced, dead>>
      [] c.by = "cleanup" ->
            IF ok
            THEN SweepGo("cleanup", SkipRegistered(reg, Tail(cleanup.todo)), {},
                         cs, reg, js, st)
            ELSE /\ calls' = cs
                 /\ jobs' = js
                 /\ activeReminders' = reg
                 /\ storeTasks' = st
                 /\ hist' = Completed(Entry("cleanup", NoKey, NoTask, FALSE, 0))
                 /\ SetSweep("cleanup", [IdleSweep EXCEPT !.err = {c.key}])
                 /\ UNCHANGED <<raced, dead>>
      [] c.by = "restore" ->
            SweepGo("restore", Tail(restore.todo),
                    IF ok THEN restore.err ELSE restore.err \cup {c.key}, cs, reg, js, st)

\* ---------------------------------------------------------------- user setup
\* handleTimezoneChoice: db.set(user.timezone)
SetTimezone(o) ==
    /\ UNCHANGED <<resolver, countdown, menu, formatted>>
    /\ ~timezone[o]
    /\ timezone' = [timezone EXCEPT ![o] = TRUE]
    /\ UNCHANGED <<storeTasks, reminderChannel, activeReminders, jobs, calls, cancels,
                   cleanup, restore, fires, everStored, events, raced,
                   dead, hist>>

\* handleChannelChoice: db.set(user.reminderChannel)
SetChannel(o) ==
    /\ UNCHANGED <<resolver, countdown, menu, formatted>>
    /\ ~reminderChannel[o]
    /\ reminderChannel' = [reminderChannel EXCEPT ![o] = TRUE]
    /\ UNCHANGED <<storeTasks, timezone, activeReminders, jobs, calls, cancels,
                   cleanup, restore, fires, everStored, events, raced,
                   dead, hist>>

\* ---------------------------------------------------------------- schedule
\* handleTimeChoice calls setupReminder, which runs to its await of
\* db.get(timezone).
TimeChoice(k, input) ==
    /\ UNCHANGED <<resolver, countdown, menu, formatted>>
    /\ events < MaxEvents
    /\ events' = events + 1
    /\ calls' = calls \cup {NewCall("user", events + 1, k, input, jobs, activeReminders)}
    /\ jobs' = CancelExisting(jobs, activeReminders, k)
    /\ raced' = IF InFlight(calls, k) THEN raced \cup {k} ELSE raced
    /\ dead' = dead \ {k}
    /\ hist' = Started
    /\ UNCHANGED <<storeTasks, timezone, reminderChannel, activeReminders, cancels,
                   cleanup, restore, fires, everStored>>

\* The time menu is only shown to an owner with a timezone (handleAddTask).
UserSchedule(k, input) == timezone[Owner(k)] /\ TimeChoice(k, input)

\* setupReminder resumes with the timezone: it resolves the next run, creates
\* the job, registers it and suspends at db.set; or it throws.
SetupTz(c, fault) ==
    /\ UNCHANGED <<resolver, countdown, menu, formatted>>
    /\ c.pc = "tz"
    /\ events' = Bump(fault)
    /\ IF fault \/ ResolveThrows(c)
       THEN Finish(c, FALSE, activeReminders, jobs, storeTasks)
       ELSE /\ jobs' = Append(jobs, NewJob(c))
            /\ activeReminders' = [activeReminders EXCEPT ![c.key] = Len(jobs) + 1]
            /\ calls' = (calls \ {c}) \cup {[c EXCEPT !.pc = "write", !.job = Len(jobs) + 1]}
            /\ UNCHANGED <<storeTasks, cleanup, restore, raced, dead, hist>>
    /\ UNCHANGED <<timezone, reminderChannel, cancels, fires, everStored>>

\* setupReminder resumes from db.set and returns, or db.set rejected
SetupWrite(c, fault) ==
    /\ UNCHANGED <<resolver, countdown, menu, formatted>>
    /\ c.pc = "write"
    /\ events' = Bump(fault)
    /\ IF fault
       THEN Finish(c, FALSE, activeReminders, jobs, storeTasks)
       ELSE Finish(c, TRUE, activeReminders, jobs,
                   [storeTasks EXCEPT ![c.key] = TaskRecord(c)])
    /\ everStored' = IF fault THEN everStored ELSE everStored \cup {c.key}
    /\ UNCHANGED <<timezone, reminderChannel, cancels, fires>>

\* ---------------------------------------------------------------- cancel
\* variant: the registry is emptied
UnregisterAll(reg, k) == [x \in DOMAIN reg |-> 0]

\* variant: the entry of the key stays in the registry
UnregisterKeep(reg, k) == reg

\* the registry after handleTaskCancellation's synchronous part
Unregister(reg, k) == [reg EXCEPT ![k] = 0]

\* handleTaskCancellation up to its await of db.delete
CancelStart(k) ==
    /\ UNCHANGED <<resolver, countdown, menu, formatted>>
    /\ events < MaxEvents
    /\ k \in everStored        \* handleCancelTask listed the key in a menu
    /\ events' = events + 1
    /\ jobs' = CancelExisting(jobs, activeReminders, k)
    /\ activeReminders' = Unregister(activeReminders, k)
    /\ cancels' = cancels \cup {[op |-> events + 1, key |-> k]}
    /\ raced' = IF InFlight(calls, k) THEN raced \cup {k} ELSE raced
    /\ dead' = dead \cup {k}
    /\ hist' = Started
    /\ UNCHANGED <<storeTasks, timezone, reminderChannel, calls, cleanup, restore,
                   fires, everStored>>

\* handleTaskCancellation resumes from db.delete
CancelDelete(c, fault) ==
    /\ UNCHANGED <<resolver, countdown, menu, formatted>>
    /\ cancels' = cancels \ {c}
    /\ events' = Bump(fault)
    /\ storeTasks' = IF fault THEN storeTasks ELSE [storeTasks EXCEPT ![c.key] = NoTask]
    /\ hist' = Completed(Entry("cancel", c.key, NoTask, ~fault, 0))
    /\ UNCHANGED <<timezone, reminderChannel, activeReminders, jobs, calls, cleanup,
                   restore, fires, everStored, raced, dead>>

\* ---------------------------------------------------------------- sweeps
\* db.all() as the sweeps read it: the stored records, in the order of the rows
StoredKeys == {k \in DOMAIN storeTasks : storeTasks[k] # NoTask}
Rows(ord) == [i \in 1..Len(ord) |-> [key |-> ord[i], input |-> storeTasks[ord[i]]]]

\* setInterval(cleanupStaleReminders, 1h): a run starts and awaits db.all()
CleanupStart ==
    /\ UNCHANGED <<resolver, countdown, menu, formatted>>
    /\ events < MaxEvents
    /\ cleanup.pc = "idle"
    /\ events' = events + 1
    /\ cleanup' = [pc |-> "all", todo |-> <<>>, err |-> {}]
    /\ hist' = Started
    /\ UNCHANGED <<storeTasks, timezone, reminderChannel, activeReminders, jobs, calls,
                   cancels, restore, fires, everStored, raced, dead>>

\* cleanupStaleReminders resumes with the rows and loops to the first record
\* whose key the registry does not have
CleanupAll(fault) ==
    /\ UNCHANGED <<resolver, countdown, menu, formatted>>
    /\ cleanup.pc = "all"
    /\ events' = Bump(fault)
    /\ IF fault
       THEN /\ cleanup' = IdleSweep
            /\ hist' = Completed(Entry("cleanup", NoKey, NoTask, FALSE, 0))
            /\ UNCHANGED <<storeTasks, activeReminders, jobs, calls, restore, raced, dead>>
       ELSE \E ord \in Orderings(StoredKeys) :
                SweepGo("cleanup", SkipRegistered(activeReminders, Rows(ord)), {},
                        calls, activeReminders, jobs, storeTasks)
    /\ UNCHANGED <<timezone, reminderChannel, cancels, fires, everStored>>

\* ClientReady handler: rest.put resolves and restoreReminders starts (it
\* awaits db.all()), or rest.put rejects and the handler's catch ends it
RestPut(fault) ==
    /\ UNCHANGED <<resolver, countdown, menu, formatted>>
    /\ restore.pc = "put"
    /\ restore' = IF fault THEN DoneSweep ELSE [pc |-> "all", todo |-> <<>>, err |-> {}]
    /\ UNCHANGED <<storeTasks, timezone, reminderChannel, activeReminders, jobs, calls,
                   cancels, cleanup, fires, everStored, events, raced, dead, hist>>

\* restoreReminders resumes with the rows and calls setupReminder for the first
RestoreAll(fault) ==
    /\ UNCHANGED <<resolver, countdown, menu, formatted>>
    /\ restore.pc = "all"
    /\ events' = Bump(fault)
    /\ IF fault
       THEN /\ restore' = DoneSweep
            /\ hist' = Completed(Entry("restore", NoKey, NoTask, FALSE, 0))
            /\ UNCHANGED <<storeTasks, activeReminders, jobs, calls, cleanup, raced, dead>>
       ELSE \E ord \in Orderings(StoredKeys) :
                SweepGo("restore", Rows(ord), {},
                        calls, activeReminders, jobs, storeTasks)
    /\ UNCHANGED <<timezone, reminderChannel, cancels, fires, everStored>>

\* ---------------------------------------------------------------- fire
\* node-schedule invokes the callback of an armed job (up to its await of
\* db.get(reminderChannel)); the recurrence rule keeps the job armed
FireStart(j) ==
    /\ UNCHANGED <<resolver, countdown, menu, formatted>>
    /\ events < MaxEvents
    /\ CanFire(j)
    /\ events' = events + 1
    /\ fires' = Append(fires, [job |-> j, pc |-> "channel", late |-> FALSE])
    /\ UNCHANGED <<storeTasks, timezone, reminderChannel, activeReminders, jobs, calls,
                   cancels, cleanup, restore, everStored, raced, dead, hist>>

\* variant: a failed dispatch drops the job's next invocation
AfterDispatchStall(js, j, outcome) ==
    IF outcome = "failed" THEN [js EXCEPT ![j].armed = FALSE] ELSE js

\* variant: the callback itself arms the next invocation when it ends
AfterDispatchRearm(js, j, outcome) == [js EXCEPT ![j].armed = TRUE]

\* the jobs after the callback ended with `outcome`: its catch only logs
AfterDispatch(js, j, outcome) == js

FireStep(n, pc2, late) ==
    /\ UNCHANGED <<resolver, countdown, menu, formatted>>
    /\ fires' = [fires EXCEPT ![n].pc = pc2, ![n].late = late]
    /\ jobs' = IF pc2 \in {"sent", "failed", "skipped"}
               THEN AfterDispatch(jobs, fires[n].job, pc2) ELSE jobs
    /\ UNCHANGED <<storeTasks, timezone, reminderChannel, activeReminders, calls,
                   cancels, cleanup, restore, everStored, raced, dead, hist>>

\* the callback resumes from db.get(reminderChannel)
FireChannel(n, fault) ==
    /\ fires[n].pc = "channel"
    /\ events' = Bump(fault)
    /\ FireStep(n, IF fault THEN "failed"
                   ELSE IF reminderChannel[Owner(jobs[fires[n].job].key)] THEN "fetch"
                   ELSE "skipped", FALSE)

\* the callback resumes from client.channels.fetch
FireFetch(n, fault) ==
    /\ fires[n].pc = "fetch"
    /\ events' = Bump(fault)
    /\ FireStep(n, IF fault THEN "failed" ELSE "send", FALSE)

\* the callback resumes from channel.send: the reminder is posted
FireSend(n, fault) ==
    /\ fires[n].pc = "send"
    /\ events' = Bump(fault)
    /\ FireStep(n, IF fault THEN "failed" ELSE "sent", ~fault /\ ~jobs[fires[n].job].armed)

\* ---------------------------------------------------------------- next run
\* setupReminder's computation of nextRun, in local wall-clock time: an instant
\* is a day (counted from Sunday 2023-01-01) and the millisecond of that day.
Instant(d, ms) == [day |-> d, ms |-> ms]
TimeOfDay(h, m, sec, ms) == ((h * 60 + m) * 60 + sec) * 1000 + ms
IsBefore(a, b) == a.day < b.day \/ (a.day = b.day /\ a.ms < b.ms)
AddDay(a) == [a EXCEPT !.day = @ + 1]
\* moment#day(): 0 is Sunday
Weekday(a) == a.day % 7

\* time.split(':').map(Number), on the values generateTimeOptions offers
Hours(time) == CASE time = "09:00" -> 9 [] time = "18:00" -> 18
Minutes(time) == 0

\* moment().tz(tz).hour(hours).minute(minutes || 0).second(0): the date and
\* the milliseconds are those of the clock
Candidate(clock, time) ==
    Instant(clock.day, TimeOfDay(Hours(time), Minutes(time), 0, clock.ms % 1000))

\* case 'daily'
DailyNext(nextRun, now) == IF IsBefore(nextRun, now) THEN AddDay(nextRun) ELSE nextRun

\* the rule of the job: rule.hour, rule.minute (second 0), rule.dayOfWeek
RuleTime(time) == TimeOfDay(Hours(time), Minutes(time), 0, 0)
RuleMatches(input, d) == input.type # "custom" \/ (d % 7) \in input.days

\* nodeSchedule.scheduleJob(rule, ...): the first match of the rule after `base`
FirstFire(input, base) ==
    LET first == IF base.ms < RuleTime(input.time) THEN base.day ELSE base.day + 1
        d == CHOOSE x \in first..(first + 6) :
                 /\ RuleMatches(input, x)
                 /\ \A y \in first..(x - 1) : ~RuleMatches(input, y)
    IN  Instant(d, RuleTime(input.time))

\* the schedule arguments of the resolver's calls
CustomWed9 == [type |-> "custom", days |-> {3}, time |-> "09:00"]
CustomMonWed9 == [type |-> "custom", days |-> {1, 3}, time |-> "09:00"]
Custom29 == [type |-> "custom", days |-> {29}, time |-> "09:00"]
Custom31 == [type |-> "custom", days |-> {31}, time |-> "09:00"]
Monthly9 == [type |-> "monthly", days |-> {}, time |-> "09:00"]
ResolveInputs == {Daily9, Weekly9, Monthly9, CustomWed9, CustomMonWed9, Custom29, Custom31}

\* the clock at the call: Mon 2023-02-27, Tue 02-28, Mon 04-10, Wed 04-12, Sun 04-30
NowDays == {57, 58, 99, 101, 119}
NowTimes == {TimeOfDay(8, 0, 0, 0), TimeOfDay(9, 0, 0, 0), TimeOfDay(9, 0, 0, 250),
             TimeOfDay(9, 0, 30, 0), TimeOfDay(10, 0, 0, 0)}
\* milliseconds between the two moment() calls of setupReminder
Skews == {0, 1}

NoResolve == [pc |-> "off", input |-> NoTask, now |-> Instant(0, 0),
              nextRun |-> Instant(0, 0), iter |-> 0]

\* setupReminder from `const now` to the branch on scheduleType
ResolveStart ==
    /\ resolver.pc = "call"
    /\ \E skew \in Skews :
          LET clock == [resolver.now EXCEPT !.ms = @ + skew]
              nextRun == Candidate(clock, resolver.input.time)
          IN  resolver' =
                CASE resolver.input.type = "custom" ->
                        [resolver EXCEPT !.pc = "loop", !.nextRun = nextRun]
                  [] resolver.input.type = "daily" ->
                        [resolver EXCEPT !.pc = "done",
                                         !.nextRun = DailyNext(nextRun, resolver.now)]
                  [] OTHER ->   \* weekly, monthly: scheduleDay is not defined
                        [resolver EXCEPT !.pc = "thrown", !.nextRun = nextRun]
    /\ UNCHANGED <<engine, countdown, menu, formatted>>

\* while (!scheduleType.includes(nextRun.day())) nextRun.add(1, 'day')
CustomAdvance ==
    /\ resolver.pc = "loop"
    /\ Weekday(resolver.nextRun) \notin resolver.input.days
    /\ resolver.iter < MaxAdvance
    /\ resolver' = [resolver EXCEPT !.nextRun = AddDay(@), !.iter = @ + 1]
    /\ UNCHANGED <<engine, countdown, menu, formatted>>

\* the loop ends
CustomExit ==
    /\ resolver.pc = "loop"
    /\ Weekday(resolver.nextRun) \in resolver.input.days
    /\ resolver' = [resolver EXCEPT !.pc = "done"]
    /\ UNCHANGED <<engine, countdown, menu, formatted>>

\* ---------------------------------------------------------------- countdown
\* The reminder messages the callbacks post, and the ids under which their
\* countdowns are kept: `${guild.id}_${message.id}` for startCountdownUpdate,
\* `${userId}_${taskName}_countdown` for sendReminder and handleTaskCancellation.
Messages == {"m1", "m2"}
TaskCountdown == "u1_a_countdown"
CountdownIds == Messages \cup {TaskCountdown}

\* job.nextInvocation(): a date, or null once the job is cancelled
NullDate == [valid |-> FALSE, at |-> 0]
DateAt(t) == [valid |-> TRUE, at |-> t]

\* `moment(targetDate).diff(moment()) <= 0`; the diff of an invalid moment is
\* NaN, and NaN <= 0 is false
Due(target, now) == target.valid /\ target.at <= now

\* no message posted, no interval set
NoCountdown ==
    /\ activeCountdowns = [id \in CountdownIds |-> 0]
    /\ intervals = <<>>
    /\ ticks = {}
    /\ minute = 0
    /\ displays = [m \in Messages |-> "none"]
    /\ failed = {}

\* clearInterval(h)
ClearInterval(js, h) == IF h = 0 THEN js ELSE [js EXCEPT ![h].running = FALSE]

\* "Clear existing countdown if any"
ClearExisting(js, ac, id) == IF ac[id] # 0 THEN ClearInterval(js, ac[id]) ELSE js

\* variant: the entry stays in the Map
ForgetKeep(ac, id) == ac

\* activeCountdowns.delete(id)
Forget(ac, id) == [ac EXCEPT ![id] = 0]

\* the handle setInterval returns next
NewInterval == Len(intervals) + 1

Ticker(m, target) == [id |-> m, target |-> target, running |-> TRUE, last |-> minute]

\* startCountdownUpdate(message, targetDate)
StartCountdownUpdate(m, target) ==
    /\ Len(intervals) < MaxIntervals
    /\ intervals' = Append(ClearExisting(intervals, activeCountdowns, m), Ticker(m, target))
    /\ activeCountdowns' = [activeCountdowns EXCEPT ![m] = NewInterval]

\* the dates job.nextInvocation() returns to a callback at the clock's reading
NextInvocations(late) ==
    IF late THEN {NullDate} ELSE {DateAt(t) : t \in (minute + 1)..MaxClock}

\* The job callback resumes from channel.send with the posted message and
\* starts its countdown; `late`: the job was cancelled while the callback was
\* suspended.
Dispatch(m, late) ==
    /\ displays[m] = "none"
    /\ displays' = [displays EXCEPT ![m] = "shown"]
    /\ \E target \in NextInvocations(late) : StartCountdownUpdate(m, target)
    /\ UNCHANGED <<engine, resolver, menu, formatted, ticks, minute, failed>>

\* a caller starts a countdown again on a message that was posted before
Restart(m, late) ==
    /\ displays[m] # "none"
    /\ \E target \in NextInvocations(late) : StartCountdownUpdate(m, target)
    /\ UNCHANGED <<engine, resolver, menu, formatted, ticks, minute, displays, failed>>

\* sendReminder resumes from channel.send
SendReminder(m, late) ==
    /\ displays[m] = "none"
    /\ Len(intervals) < MaxIntervals
    /\ displays' = [displays EXCEPT ![m] = "shown"]
    /\ \E target \in NextInvocations(late) :
          intervals' = Append(ClearExisting(
                                  ClearExisting(intervals, activeCountdowns, TaskCountdown),
                                  activeCountdowns, m),
                              Ticker(m, target))
    /\ activeCountdowns' = [activeCountdowns EXCEPT ![m] = NewInterval,
                                                    ![TaskCountdown] = NewInterval]
    /\ UNCHANGED <<engine, resolver, menu, formatted, ticks, minute, failed>>

\* handleTaskCancellation clears the countdown kept under the task's id
CancelCountdown ==
    /\ activeCountdowns[TaskCountdown] # 0
    /\ intervals' = ClearInterval(intervals, activeCountdowns[TaskCountdown])
    /\ activeCountdowns' = Forget(activeCountdowns, TaskCountdown)
    /\ UNCHANGED <<engine, resolver, menu, formatted, ticks, minute, displays, failed>>

\* The interval's callback runs, once a period while the interval is set: when
\* the target is due it stops the ticker and awaits message.delete, otherwise
\* it builds the new embed from message.embeds[0] and awaits message.edit;
\* `embed`: the message still carries its embed, without it the catch block runs.
Tick(i, embed) ==
    /\ intervals[i].running
    /\ intervals[i].last < minute
    /\ IF Due(intervals[i].target, minute)
       THEN /\ intervals' = [ClearInterval(intervals, i) EXCEPT ![i].last = minute]
            /\ activeCountdowns' = Forget(activeCountdowns, intervals[i].id)
            /\ ticks' = ticks \cup {[interval |-> i, pc |-> "delete", at |-> minute]}
            /\ UNCHANGED failed
       ELSE IF embed
       THEN /\ intervals' = [intervals EXCEPT ![i].last = minute]
            /\ ticks' = ticks \cup {[interval |-> i, pc |-> "edit", at |-> minute]}
            /\ UNCHANGED <<activeCountdowns, failed>>
       ELSE /\ intervals' = [ClearInterval(intervals, i) EXCEPT ![i].last = minute]
            /\ activeCountdowns' = Forget(activeCountdowns, intervals[i].id)
            /\ failed' = failed \cup {i}
            /\ UNCHANGED ticks
    /\ UNCHANGED <<engine, resolver, menu, formatted, minute, displays>>

\* the callback resumes from message.edit; a rejection runs the catch block
TickEdit(t, ok) ==
    /\ t.pc = "edit"
    /\ ok => displays[intervals[t.interval].id] = "shown"
    /\ ticks' = ticks \ {t}
    /\ IF ok
       THEN UNCHANGED <<intervals, activeCountdowns, failed>>
       ELSE /\ intervals' = ClearInterval(intervals, t.interval)
            /\ activeCountdowns' = Forget(activeCountdowns, intervals[t.interval].id)
            /\ failed' = failed \cup {t.interval}
    /\ UNCHANGED <<engine, resolver, menu, formatted, minute, displays>>

\* the callback resumes from message.delete().catch(() => {})
TickDelete(t) ==
    /\ t.pc = "delete"
    /\ ticks' = ticks \ {t}
    /\ displays' = [displays EXCEPT ![intervals[t.interval].id] = "deleted"]
    /\ UNCHANGED <<engine, resolver, menu, formatted, activeCountdowns, intervals, minute, failed>>

\* someone deletes a reminder message in the channel
DeleteMessage(m) ==
    /\ displays[m] = "shown"
    /\ displays' = [displays EXCEPT ![m] = "deleted"]
    /\ UNCHANGED <<engine, resolver, menu, formatted, activeCountdowns, intervals, ticks, minute, failed>>

\* a refresh period passes
Advance ==
    /\ minute < MaxClock
    /\ minute' = minute + 1
    /\ UNCHANGED <<engine, resolver, menu, formatted, activeCountdowns, intervals, ticks, displays, failed>>

\* ---------------------------------------------------------------- menus
\* What the owner picks in the add-task menus: the schedule type with its
\* weekday (0 = Sunday), its day of the month or its set of weekdays.
WeekDays == 0..6
MonthDays == 1..31
Selections ==
    {[type |-> "daily", days |-> {}]}
        \cup {[type |-> "weekly", days |-> {w}] : w \in WeekDays}
        \cup {[type |-> "monthly", days |-> {d}] : d \in MonthDays}
        \cup {[type |-> "custom", days |-> ds] : ds \in {{0}, {1, 3}}}
Times == {"09:00", "18:00"}

\* a customId `time_<scheduleType>_<taskName>[_<days>]`, by its parts; the days
\* part is kept as the set of the numbers written in it, {} when it is absent
NoCustomId == [scheduleType |-> "none", customDays |-> {}]
NoMenu == [pc |-> "off", choice |-> [type |-> "none", days |-> {}],
           customId |-> NoCustomId, schedule |-> NoTask, stored |-> NoTask]

\* `scheduleDay ? ... : ''`: null and 0 are falsy
Truthy(scheduleDay) == scheduleDay # {} /\ scheduleDay # {0}

\* showTimeSelection(interaction, scheduleType, taskName, scheduleDay)
TimeCustomId(scheduleType, scheduleDay) ==
    [scheduleType |-> scheduleType,
     customDays |-> IF Truthy(scheduleDay) THEN scheduleDay ELSE {}]

\* handleDayConfirmation: `time_custom_${taskName}_${selectedDaysList.join(',')}`
DaysCustomId(selectedDaysList) == [scheduleType |-> "custom", customDays |-> selectedDaysList]

\* handleTimeChoice: the schedule it passes to setupReminder; a days part
\* becomes an array of numbers, otherwise the type is passed alone
ChosenSchedule(customId, time) ==
    IF customId.customDays # {}
    THEN [type |-> "custom", days |-> customId.customDays, time |-> time]
    ELSE [type |-> customId.scheduleType, days |-> {}, time |-> time]

\* the owner picked the day(s): the time menu is shown
ShowTime ==
    /\ menu.pc = "schedule"
    /\ menu' = [menu EXCEPT
                  !.pc = "time",
                  !.customId = IF menu.choice.type = "custom"
                               THEN DaysCustomId(menu.choice.days)
                               ELSE TimeCustomId(menu.choice.type, menu.choice.days)]
    /\ UNCHANGED <<engine, resolver, countdown, formatted>>

\* the owner picked the time: handleTimeChoice calls setupReminder
PickTime(time) ==
    /\ menu.pc = "time"
    /\ menu' = [menu EXCEPT !.pc = "call", !.schedule = ChosenSchedule(menu.customId, time)]
    /\ UNCHANGED <<engine, resolver, countdown, formatted>>

\* setupReminder with that schedule: the weekly and monthly branches throw,
\* the array branch loops until a listed weekday comes, otherwise the job is
\* armed and the record written with `schedule: scheduleType`
SetupChosen ==
    /\ menu.pc = "call"
    /\ menu' = IF menu.schedule.type \in {"weekly", "monthly"}
               THEN [menu EXCEPT !.pc = "error"]
               ELSE IF menu.schedule.type = "custom" /\ menu.schedule.days \cap WeekDays = {}
               THEN [menu EXCEPT !.pc = "loop"]
               ELSE [menu EXCEPT !.pc = "set", !.stored = menu.schedule]
    /\ UNCHANGED <<engine, resolver, countdown, formatted>>

\* ---------------------------------------------------------------- format
\* formatCountdown(targetDate), on `diff = moment(targetDate).diff(moment())`
\* in milliseconds.  The text is kept by its parts: the due marker, or the
\* list of `<n><unit>` items that are joined with ' '.
DueNow == [due |-> TRUE, parts |-> <<>>]
Text(parts) == [due |-> FALSE, parts |-> parts]
Part(n, unit) == [n |-> n, unit |-> unit]

\* the components of moment.duration(diff), diff > 0
Days(diff) == diff \div 86400000
DurationHours(diff) == (diff \div 3600000) % 24
DurationMinutes(diff) == (diff \div 60000) % 60
DurationSeconds(diff) == (diff \div 1000) % 60

\* `if (n > 0) parts.push(...)`
Push(parts, n, unit) == IF n > 0 THEN Append(parts, Part(n, unit)) ELSE parts

FormatCountdown(diff) ==
    IF diff <= 0
    THEN DueNow
    ELSE Text(Push(Push(Push(Push(<<>>, Days(diff), "d"),
                             DurationHours(diff), "h"),
                        DurationMinutes(diff), "m"),
                   DurationSeconds(diff), "s"))

\* the remaining durations formatCountdown is called with, in milliseconds
Millis(d, h, m, sec, ms) == d * 86400000 + h * 3600000 + m * 60000 + sec * 1000 + ms
Diffs ==
    {Millis(d, h, m, sec, ms) :
        d \in {0, 1, 2}, h \in {0, 1, 23}, m \in {0, 1, 59}, sec \in {0, 1, 59}, ms \in {0, 500}}
        \cup {0 - 1, 0 - 60000}

NoFormat == [pc |-> "off", diff |-> 0, text |-> DueNow]

\* formatCountdown runs
Format ==
    /\ formatted.pc = "call"
    /\ formatted' = [formatted EXCEPT !.pc = "done", !.text = FormatCountdown(formatted.diff)]
    /\ UNCHANGED <<engine, resolver, countdown, menu>>

\* ---------------------------------------------------------------- system
\* The process has started and the client is ready: the registry is empty,
\* the store holds what earlier runs of the process left in it.
Init ==
    /\ \E ks \in SUBSET Keys :
          /\ storeTasks = [k \in Keys |-> IF k \in ks THEN InitRecord ELSE NoTask]
          /\ timezone = [o \in Owners |-> \E k \in ks : Owner(k) = o]
          /\ everStored = ks
          /\ hist = [clean |-> TRUE, ops |-> <<>>,
                     before |-> Snapshot([k \in Keys |-> 0], <<>>,
                                  [k \in Keys |-> IF k \in ks THEN InitRecord ELSE NoTask])]
    /\ reminderChannel = [o \in Owners |-> FALSE]
    /\ activeReminders = [k \in Keys |-> 0]
    /\ jobs = <<>>
    /\ calls = {}
    /\ cancels = {}
    /\ cleanup = IdleSweep
    /\ restore = [pc |-> "put", todo |-> <<>>, err |-> {}]
    /\ fires = <<>>
    /\ events = 0
    /\ raced = {}
    /\ dead = {}
    /\ resolver = NoResolve
    /\ NoCountdown
    /\ menu = NoMenu
    /\ formatted = NoFormat

\* an activation resumes from its await
Resume ==
    \/ \E c \in calls, fault \in FaultChoices : SetupTz(c, fault)
    \/ \E c \in calls, fault \in FaultChoices : SetupWrite(c, fault)
    \/ \E c \in cancels, fault \in FaultChoices : CancelDelete(c, fault)
    \/ \E fault \in FaultChoices : CleanupAll(fault)
    \/ \E fault \in BOOLEAN : RestPut(fault)      \* runs once: outside the budget
    \/ \E fault \in FaultChoices : RestoreAll(fault)
    \/ \E o \in Owners : SetTimezone(o)

\* an operation starts while fewer than `limit` are in progress
Start(limit) ==
    \/ \E k \in Keys, input \in Inputs : Running < limit /\ UserSchedule(k, input)
    \/ \E k \in Keys : Running < limit /\ CancelStart(k)
    \/ Running < limit /\ CleanupStart

\* a job fires and its callback runs
Fire ==
    \/ \E o \in Owners : SetChannel(o)
    \/ \E j \in 1..Len(jobs) : FireStart(j)
    \/ \E n \in 1..Len(fires), fault \in FaultChoices : FireChannel(n, fault)
    \/ \E n \in 1..Len(fires), fault \in FaultChoices : FireFetch(n, fault)
    \/ \E n \in 1..Len(fires), fault \in FaultChoices : FireSend(n, fault)

\* Schedule, cancel, sweep and job-callback activations interleave at their awaits.
Next == Resume \/ Start(MaxEvents + 2) \/ Fire

Spec == Init /\ [][Next]_vars

\* Every schedule, cancel and sweep runs to completion before the next one
\* starts (calls in succession); job callbacks interleave with them.
NextSeq == Resume \/ Start(1) \/ Fire

SpecSeq == Init /\ [][NextSeq]_vars

\* setupReminder called by each of its callers on every content of the store,
\* also one where an owner has task records and no timezone.
CallInit ==
    /\ \E ks \in SUBSET Keys, tz \in BOOLEAN :
          /\ storeTasks = [k \in Keys |-> IF k \in ks THEN InitRecord ELSE NoTask]
          /\ timezone = [o \in Owners |-> tz]
          /\ everStored = ks
          /\ hist = [clean |-> TRUE, ops |-> <<>>,
                     before |-> Snapshot([k \in Keys |-> 0], <<>>,
                                  [k \in Keys |-> IF k \in ks THEN InitRecord ELSE NoTask])]
    /\ reminderChannel = [o \in Owners |-> FALSE]
    /\ activeReminders = [k \in Keys |-> 0]
    /\ jobs = <<>>
    /\ calls = {}
    /\ cancels = {}
    /\ cleanup = IdleSweep
    /\ restore = [pc |-> "put", todo |-> <<>>, err |-> {}]
    /\ fires = <<>>
    /\ events = 0
    /\ raced = {}
    /\ dead = {}
    /\ resolver = NoResolve
    /\ NoCountdown
    /\ menu = NoMenu
    /\ formatted = NoFormat

\* handleTimeChoice for an owner without a timezone
BareSchedule ==
    \E k \in Keys, input \in Inputs :
        Running < 1 /\ ~timezone[Owner(k)] /\ TimeChoice(k, input)

NextCall == NextSeq \/ BareSchedule

SpecCall == CallInit /\ [][NextCall]_vars

\* One call of setupReminder for each schedule and each reading of the clock:
\* the computation of nextRun alone.
ResolveInit ==
    /\ storeTasks = [k \in Keys |-> NoTask]
    /\ timezone = [o \in Owners |-> TRUE]
    /\ reminderChannel = [o \in Owners |-> FALSE]
    /\ activeReminders = [k \in Keys |-> 0]
    /\ jobs = <<>>
    /\ calls = {}
    /\ cancels = {}
    /\ cleanup = IdleSweep
    /\ restore = DoneSweep
    /\ fires = <<>>
    /\ everStored = {}
    /\ events = 0
    /\ raced = {}
    /\ dead = {}
    /\ hist = [clean |-> TRUE, ops |-> <<>>,
               before |-> Snapshot([k \in Keys |-> 0], <<>>, [k \in Keys |-> NoTask])]
    /\ \E input \in ResolveInputs, d \in NowDays, t \in NowTimes :
          resolver = [pc |-> "call", input |-> input, now |-> Instant(d, t),
                      nextRun |-> Instant(0, 0), iter |-> 0]
    /\ NoCountdown
    /\ menu = NoMenu
    /\ formatted = NoFormat

ResolveNext == ResolveStart \/ CustomAdvance \/ CustomExit

SpecResolve == ResolveInit /\ [][ResolveNext]_vars

\* The countdowns of the reminders the job callbacks post: every message is
\* new and gets one countdown.
EngineIdle ==
    /\ storeTasks = [k \in Keys |-> NoTask]
    /\ timezone = [o \in Owners |-> TRUE]
    /\ reminderChannel = [o \in Owners |-> TRUE]
    /\ activeReminders = [k \in Keys |-> 0]
    /\ jobs = <<>>
    /\ calls = {}
    /\ cancels = {}
    /\ cleanup = IdleSweep
    /\ restore = DoneSweep
    /\ fires = <<>>
    /\ everStored = {}
    /\ events = 0
    /\ raced = {}
    /\ dead = {}
    /\ hist = [clean |-> TRUE, ops |-> <<>>,
               before |-> Snapshot([k \in Keys |-> 0], <<>>, [k \in Keys |-> NoTask])]

TickInit ==
    EngineIdle /\ resolver = NoResolve /\ NoCountdown /\ menu = NoMenu /\ formatted = NoFormat

TickNext ==
    \/ \E m \in Messages, late \in BOOLEAN : Dispatch(m, late)
    \/ \E i \in 1..Len(intervals), embed \in BOOLEAN : Tick(i, embed)
    \/ \E t \in ticks, ok \in BOOLEAN : TickEdit(t, ok)
    \/ \E t \in ticks : TickDelete(t)
    \/ \E m \in Messages : DeleteMessage(m)
    \/ Advance

SpecTick == TickInit /\ [][TickNext]_vars

\* startCountdownUpdate with every caller: a countdown may be started again
\* on a message that has one, and through sendReminder.
StartNext ==
    \/ TickNext
    \/ \E m \in Messages, late \in BOOLEAN : Restart(m, late)
    \/ \E m \in Messages, late \in BOOLEAN : SendReminder(m, late)
    \/ CancelCountdown

SpecStart == TickInit /\ [][StartNext]_vars

\* The process with the tasks of two owners in its store, operations in
\* succession.
OwnersInit ==
    /\ \E ks \in SUBSET AllKeys :
          /\ storeTasks = [k \in AllKeys |-> IF k \in ks THEN InitRecord ELSE NoTask]
          /\ timezone = [o \in AllOwners |-> \E k \in ks : Owner(k) = o]
          /\ everStored = ks
          /\ hist = [clean |-> TRUE, ops |-> <<>>,
                     before |-> Snapshot([k \in AllKeys |-> 0], <<>>,
                                  [k \in AllKeys |-> IF k \in ks THEN InitRecord ELSE NoTask])]
    /\ reminderChannel = [o \in AllOwners |-> FALSE]
    /\ activeReminders = [k \in AllKeys |-> 0]
    /\ jobs = <<>>
    /\ calls = {}
    /\ cancels = {}
    /\ cleanup = IdleSweep
    /\ restore = [pc |-> "put", todo |-> <<>>, err |-> {}]
    /\ fires = <<>>
    /\ events = 0
    /\ raced = {}
    /\ dead = {}
    /\ resolver = NoResolve
    /\ NoCountdown
    /\ menu = NoMenu
    /\ formatted = NoFormat

\* the second owner uses the bot
OtherOwner ==
    \/ \E input \in Inputs : Running < 1 /\ UserSchedule(OtherKey, input)
    \/ Running < 1 /\ CancelStart(OtherKey)
    \/ SetTimezone(Owner(OtherKey))
    \/ SetChannel(Owner(OtherKey))

NextOwners == NextSeq \/ OtherOwner

SpecOwners == OwnersInit /\ [][NextOwners]_vars

\* One pass through the menus for each selection.
SelectInit ==
    /\ EngineIdle /\ resolver = NoResolve /\ NoCountdown
    /\ \E choice \in Selections : menu = [NoMenu EXCEPT !.pc = "schedule", !.choice = choice]
    /\ formatted = NoFormat

SelectNext == ShowTime \/ (\E time \in Times : PickTime(time)) \/ SetupChosen

SpecSelect == SelectInit /\ [][SelectNext]_vars

\* One call of formatCountdown for each remaining duration.
FormatInit ==
    /\ EngineIdle /\ resolver = NoResolve /\ NoCountdown /\ menu = NoMenu
    /\ \E diff \in Diffs : formatted = [NoFormat EXCEPT !.pc = "call", !.diff = diff]

FormatNext == Format

SpecFormat == FormatInit /\ [][FormatNext]_vars

\* ================================================================ properties
LastOp == hist.ops[Len(hist.ops)]
IsSweep(e) == e.op \in {"cleanup", "restore"}
OkSchedule(e, k) == e.op = "schedule" /\ e.key = k /\ e.ok
OkCancel(e, k) == e.op = "cancel" /\ e.key = k /\ e.ok
Now == Snapshot(activeReminders, jobs, storeTasks)

\* ---------------------------------------------------------------- C1
\* C1: with schedule, cancel and sweep calls each completing before the next
\* starts, a key never has more than one live timer, and a live timer of a key
\* is the job the registry holds under that key.
C1_AtMostOneJob ==
    \A k \in Keys :
        /\ Cardinality(LiveJobs(jobs, k)) <= 1
        /\ LiveJobs(jobs, k) \subseteq {activeReminders[k]}

\* a cancel and then a schedule of a key that had a job: the job is dead, the
\* new one is live and registered
C1_Witness ==
    \E k \in Keys :
        /\ Quiet /\ Len(hist.ops) = 2
        /\ OkCancel(hist.ops[1], k) /\ OkSchedule(hist.ops[2], k)
        /\ \E j \in 1..Len(jobs) : jobs[j].key = k /\ jobs[j].cancelled
        /\ LiveJobs(jobs, k) = {activeReminders[k]}

\* ---------------------------------------------------------------- C2
\* C2: when an operation on key K ran while a schedule call for K was
\* suspended, then once all operations have completed K has at most one live
\* timer, no live timer of K is outside the registry, and K has a live timer
\* only if it has a persisted record.
C2_Revalidates ==
    Quiet => \A k \in raced :
        /\ Cardinality(LiveJobs(jobs, k)) <= 1
        /\ LiveJobs(jobs, k) \subseteq {activeReminders[k]}
        /\ (LiveJobs(jobs, k) # {} => storeTasks[k] # NoTask)

\* ---------------------------------------------------------------- C3
\* C3: no timer is armed for a schedule that is not the persisted record of
\* its key (the record is written before the timer is armed, and a failed
\* write leaves no timer).
C3_WriteThenArm ==
    \A j \in AllLive(jobs) : storeTasks[jobs[j].key] = jobs[j].input

\* ---------------------------------------------------------------- C4
\* C4: whenever a sweep has completed without error, every record in the
\* store has a live timer for its key.
C4_SweepArmsAll ==
    (Quiet /\ hist.ops # <<>> /\ IsSweep(LastOp) /\ LastOp.ok)
        => \A k \in StoredKeys : LiveJobs(jobs, k) # {}

\* ---------------------------------------------------------------- C5
\* C5: after two schedule calls in succession for one key with different
\* specs, the record and the one live timer of the key are those of the second
\* call and the first call's timer is cancelled; while a schedule call has not
\* yet armed its timer, the key has no live timer.
C5_Replace ==
    /\ \A k \in Keys :
          (/\ Quiet /\ Len(hist.ops) = 2
           /\ OkSchedule(hist.ops[1], k) /\ OkSchedule(hist.ops[2], k)
           /\ hist.ops[1].input # hist.ops[2].input)
          => /\ storeTasks[k] = hist.ops[2].input
             /\ LiveJobs(jobs, k) = {hist.ops[2].job}
             /\ activeReminders[k] = hist.ops[2].job
             /\ jobs[hist.ops[2].job].input = hist.ops[2].input
             /\ jobs[hist.ops[1].job].cancelled
    /\ \A c \in calls : c.pc = "tz" => LiveJobs(jobs, c.key) = {}

C5_Witness ==
    \E k \in Keys :
        /\ Quiet /\ Len(hist.ops) = 2
        /\ OkSchedule(hist.ops[1], k) /\ OkSchedule(hist.ops[2], k)
        /\ hist.ops[1].input = Daily9 /\ hist.ops[2].input = Custom18
        /\ storeTasks[k] = Custom18

\* ---------------------------------------------------------------- C6
\* C6: after a cancel of key K has completed, K has no registry entry, no live
\* timer and no record, whether or not K had a job; a second cancel of K in
\* succession changes nothing.
C6_Cancel ==
    \A k \in Keys :
        (Quiet /\ hist.ops # <<>> /\ OkCancel(LastOp, k))
        => /\ activeReminders[k] = 0
           /\ LiveJobs(jobs, k) = {}
           /\ storeTasks[k] = NoTask
           /\ (Len(hist.ops) = 2 /\ OkCancel(hist.ops[1], k) => Now = hist.before)

\* K had a job; it was cancelled twice
C6_Witness ==
    \E k \in Keys :
        /\ Quiet /\ Len(hist.ops) = 2
        /\ OkCancel(hist.ops[1], k) /\ OkCancel(hist.ops[2], k)
        /\ \E j \in 1..Len(jobs) : jobs[j].key = k /\ jobs[j].cancelled
        /\ Now = hist.before

\* ---------------------------------------------------------------- C7
\* C7: a job that has fired and has not been cancelled is armed for its next
\* occurrence, whatever the state or the outcome of the dispatch.
C7_FireKeepsArmed ==
    \A n \in 1..Len(fires) :
        ~jobs[fires[n].job].cancelled => jobs[fires[n].job].armed

\* a dispatch failed and the job is still armed
C7_Witness ==
    \E n \in 1..Len(fires) :
        /\ fires[n].pc = "failed"
        /\ ~jobs[fires[n].job].cancelled
        /\ jobs[fires[n].job].armed

\* ---------------------------------------------------------------- C8
\* C8: a key that was cancelled and not scheduled since has no armed timer,
\* also while and after a callback that had started before the cancel
\* delivers its reminder.
C8_CancelStopsFiring ==
    \A k \in dead : LiveJobs(jobs, k) = {}

\* the reminder of a callback that started before the cancel was sent after it
C8_Witness ==
    \E n \in 1..Len(fires) :
        /\ fires[n].pc = "sent" /\ fires[n].late
        /\ jobs[fires[n].job].key \in dead
        /\ cancels = {}
        /\ hist.ops # <<>> /\ OkCancel(LastOp, jobs[fires[n].job].key)

\* ---------------------------------------------------------------- C9
\* C9: a setupReminder call made by a sweep cancelled no live job, and the
\* timer it arms is the only live timer of its key.
C9_SweepLeavesLive ==
    \A c \in calls :
        c.by # "user" =>
            /\ c.replaced = 0
            /\ (c.pc = "write" => LiveJobs(jobs, c.key) \subseteq {c.job})

\* ---------------------------------------------------------------- C11
\* the sweep whose completion is the last entry of the history
SweepOf(e) == IF e.op = "cleanup" THEN cleanup ELSE restore

\* C11: after a sweep pass that got its rows from the store, every stored
\* record other than those whose own setupReminder threw in that pass has
\* been taken care of: its key is in the registry.
C11_SweepIsolation ==
    (/\ Quiet /\ hist.ops # <<>> /\ IsSweep(LastOp)
     /\ (LastOp.ok \/ SweepOf(LastOp).err # {}))
        => \A k \in StoredKeys \ SweepOf(LastOp).err : activeReminders[k] # 0

\* ---------------------------------------------------------------- C12
\* C12: when the ClientReady handler has ended and nothing else has happened
\* (no user operation, no hourly sweep, no storage error), every stored
\* record has a live timer: restoreReminders has run.
C12_RestoreAtStartup ==
    (restore.pc = "done" /\ events = 0)
        => \A k \in StoredKeys : LiveJobs(jobs, k) # {}

\* ---------------------------------------------------------------- C13
\* a step of a sweep: its activation, or a setupReminder call it made, moves
SweepStep ==
    \/ cleanup' # cleanup
    \/ restore' # restore
    \/ \E c \in calls : c.by # "user" /\ c \notin calls'

NoTimerCancelled == \A j \in 1..Len(jobs) : jobs[j].armed => jobs'[j].armed
NoEntryRemoved == \A k \in Keys : activeReminders[k] # 0 => activeReminders'[k] # 0
NoRecordDeleted == \A k \in Keys : storeTasks[k] # NoTask => storeTasks'[k] # NoTask

\* C13: no step of a sweep cancels a timer, removes a registry entry or
\* deletes a persisted record.
C13_SweepAdditive ==
    [][SweepStep => NoTimerCancelled /\ NoEntryRemoved /\ NoRecordDeleted]_vars

\* ---------------------------------------------------------------- C14
\* C14: the next run a call of setupReminder has computed is after the `now`
\* of that call.
C14_NextAfterNow ==
    resolver.pc = "done" => IsBefore(resolver.now, resolver.nextRun)

\* ---------------------------------------------------------------- C15
SameSecond(a, b) == a.day = b.day /\ a.ms \div 1000 = b.ms \div 1000

\* C15: the next run a call has computed is, to the second, the first
\* invocation of the job it arms.
C15_ReturnedIsFirstFire ==
    resolver.pc = "done"
        => SameSecond(resolver.nextRun, FirstFire(resolver.input, resolver.now))

\* ---------------------------------------------------------------- C16
\* the same week's weekday w at the time when that is after now, else the
\* following week's
WeeklyExpected(w, time, now) ==
    LET d == now.day + ((w - Weekday(now) + 7) % 7)
    IN  IF IsBefore(now, Instant(d, RuleTime(time)))
        THEN Instant(d, RuleTime(time)) ELSE Instant(d + 7, RuleTime(time))

\* C16: a weekly schedule resolves (scheduleType 'weekly' does not throw), and
\* a schedule for Wednesdays at 09:00 (the one-day array handleTimeChoice
\* passes) gives this week's Wednesday 09:00 when that is still ahead and
\* next week's otherwise.
C16_Weekly ==
    /\ resolver.input.type = "weekly" => resolver.pc # "thrown"
    /\ (resolver.input = CustomWed9 /\ resolver.pc = "done")
          => SameSecond(resolver.nextRun, WeeklyExpected(3, "09:00", resolver.now))

\* ---------------------------------------------------------------- C17
\* a monthly schedule as setupReminder gets it: scheduleType 'monthly', or
\* the one-number array handleTimeChoice makes of the day of the month
IsMonthly(input, d) == input.type = "monthly" \/ (input.type = "custom" /\ input.days = {d})
\* 2023-04-01 .. 2023-04-30 are the days 90 .. 119
InApril(t) == t.day \in 90..119

\* C17: for the 31st of each month, called in April before the 30th at
\* 09:00, the call does not throw, its candidate does not leave April and
\* the next run it ends with is on April 30.
C17_MonthlyClamp ==
    (/\ IsMonthly(resolver.input, 31) /\ resolver.pc # "call"
     /\ IsBefore(resolver.now, Instant(119, RuleTime("09:00"))) /\ InApril(resolver.now))
        => /\ resolver.pc # "thrown"
           /\ InApril(resolver.nextRun)
           /\ (resolver.pc = "done" => resolver.nextRun.day = 119)

\* ---------------------------------------------------------------- C18
\* 2023-02-28 is day 58, 2023-03-29 is day 87
\* C18: for the 29th of each month, called in February 2023, the call does
\* not throw and ends with February 28 when that is still ahead, else with
\* March 29 (the clamp of March, not February's 28).
C18_MonthlyReclamp ==
    (IsMonthly(resolver.input, 29) /\ resolver.pc # "call" /\ resolver.now.day \in {57, 58})
        => /\ resolver.pc # "thrown"
           /\ resolver.nextRun.day <= 87
           /\ (resolver.pc = "done" =>
                  resolver.nextRun.day =
                      IF IsBefore(resolver.now, Instant(58, RuleTime("09:00")))
                      THEN 58 ELSE 87)

\* ---------------------------------------------------------------- C19
\* C19: a daily next run is after now, not after now + 1 day, and at the
\* requested hour and minute, second 0, of today or tomorrow.
C19_DailyWindow ==
    (resolver.input.type = "daily" /\ resolver.pc = "done")
        => /\ IsBefore(resolver.now, resolver.nextRun)
           /\ ~IsBefore(AddDay(resolver.now), resolver.nextRun)
           /\ resolver.nextRun.day \in {resolver.now.day, resolver.now.day + 1}
           /\ resolver.nextRun.ms \div 1000 = RuleTime(resolver.input.time) \div 1000

\* ---------------------------------------------------------------- C20
\* C20: the day-by-day loop of a custom schedule makes at most 7 iterations,
\* and a set without a weekday in 0..6 does not enter it.
C20_CustomTerminates ==
    /\ resolver.iter <= 7
    /\ (resolver.input.type = "custom" /\ resolver.input.days \cap (0..6) = {})
          => resolver.pc \in {"call", "thrown"}

\* ---------------------------------------------------------------- C21
\* C21: after a schedule call that failed before it created a job (the
\* timezone read or the resolution of the next run threw), the registry, the
\* timers and the store are as they were before the call.
C21_RejectedUnchanged ==
    (/\ Quiet /\ hist.ops # <<>>
     /\ LastOp.op = "schedule" /\ ~LastOp.ok /\ LastOp.job = 0)
        => Now = hist.before

\* ---------------------------------------------------------------- C22
\* C22: a setupReminder call that resumes from its timezone read with no
\* timezone stored ends there: it creates no job, leaves the registry and
\* the store as they are, and its key has no armed timer.
C22_NoTimezone ==
    [][\A c \in calls :
          (c.pc = "tz" /\ ~timezone[Owner(c.key)] /\ c \notin calls')
          => /\ Len(jobs') = Len(jobs)
             /\ activeReminders' = activeReminders
             /\ storeTasks' = storeTasks
             /\ LiveJobs(jobs', c.key) = {}
             /\ \A d \in calls' : ~(d.key = c.key /\ d.pc = "write")]_vars

\* the startup sweep's calls threw for want of a timezone, and so did a
\* call from handleTimeChoice
C22_Witness ==
    /\ ~timezone["u1"]
    /\ restore.pc = "done" /\ restore.err # {}
    /\ hist.ops # <<>> /\ LastOp.op = "schedule" /\ ~LastOp.ok
    /\ events = 1
    /\ jobs = <<>>

\* ---------------------------------------------------------------- C23
\* the intervals set for countdown id `id` that have not been cleared
RunningFor(id) == {i \in 1..Len(intervals) : intervals[i].id = id /\ intervals[i].running}

C24_TicksTowardTarget ==
    [][\A t \in ticks' \ ticks :
          t.pc = "edit" => /\ intervals[t.interval].target.valid
                           /\ intervals[t.interval].target.at > minute]_vars

\* ---------------------------------------------------------------- C25
\* C25: the tick on which the display update fails clears the ticker's own
\* interval and removes its entry from activeCountdowns in that same step,
\* and the ticker's callback never starts again.
C25_FailedRenderEnds ==
    [][/\ \A i \in failed' \ failed :
             /\ ~intervals'[i].running
             /\ activeCountdowns'[intervals[i].id] = 0
       /\ \A i \in failed : /\ ~intervals'[i].running
                            /\ intervals'[i].last = intervals[i].last
                            /\ \A t \in ticks' \ ticks : t.interval # i]_vars

\* a display update failed, and refresh periods have passed since without
\* anything else having been started
C25_Witness ==
    \E i \in failed :
        /\ intervals[i].last < minute
        /\ Len(intervals) = 1
        /\ ticks = {}

Cancelled(k) ==
    /\ k \in dead
    /\ \A c \in cancels : c.key # k
    /\ storeTasks[k] = NoTask
    /\ LiveJobs(jobs, k) = {}

\* C26: once the cancel of K has completed, no step of a sweep or of a
\* schedule call that was in flight arms a timer for K or writes a record for
\* K, as long as no schedule of K is issued.
C26_StaysCancelled ==
    [][\A k \in Keys :
          (Cancelled(k) /\ k \in dead')
          => /\ storeTasks'[k] = NoTask
             /\ LiveJobs(jobs', k) = {}]_vars

\* ---------------------------------------------------------------- C27
\* C27: whenever no schedule call for K is in progress, an entry for K in
\* activeReminders refers to an armed, un-cancelled job.
C27_EntriesLive ==
    \A k \in Keys :
        (~InFlight(calls, k) /\ activeReminders[k] # 0)
            => activeReminders[k] \in LiveJobs(jobs, k)

\* ---------------------------------------------------------------- C29
\* the schedule has the shape and the day of the selection
AsChosen(schedule) ==
    schedule.type = menu.choice.type /\ schedule.days = menu.choice.days

\* C29: a weekly or monthly selection is passed to setupReminder with its
\* shape and its day, setupReminder arms it, and the record it writes has
\* that shape and that day.
C29_SelectionKept ==
    menu.choice.type \in {"weekly", "monthly"}
        => /\ menu.pc \in {"call", "error", "loop", "set"} => AsChosen(menu.schedule)
           /\ menu.pc \notin {"error", "loop"}
           /\ menu.pc = "set" => AsChosen(menu.stored)

\* ---------------------------------------------------------------- C30
\* the keys of the schedule calls, cancels and job callbacks that start or
\* resume in the step
Acted ==
    {c.key : c \in (calls \ calls') \cup (calls' \ calls)}
        \cup {c.key : c \in (cancels \ cancels') \cup (cancels' \ cancels)}
        \cup {jobs[fires'[n].job].key :
                 n \in {m \in 1..Len(fires') : m > Len(fires) \/ fires'[m] # fires[m]}}

\* the jobs, the registry entry and the record of key k are left as they are
Untouched(k) ==
    /\ storeTasks'[k] = storeTasks[k]
    /\ activeReminders'[k] = activeReminders[k]
    /\ \A j \in 1..Len(jobs) : jobs[j].key = k => jobs'[j] = jobs[j]
    /\ \A j \in (Len(jobs) + 1)..Len(jobs') : jobs'[j].key # k

Units(diff) ==
    <<Part(Days(diff), "d"), Part(DurationHours(diff), "h"),
      Part(DurationMinutes(diff), "m"), Part(DurationSeconds(diff), "s")>>
RECURSIVE DropLeadingZeros(_)
DropLeadingZeros(parts) ==
    IF parts = <<>> \/ Head(parts).n # 0 THEN parts ELSE DropLeadingZeros(Tail(parts))

\* C31: for a remaining duration above zero formatCountdown returns a
\* non-empty breakdown days, hours, minutes, seconds from which only the
\* leading zero-valued units are left out, and for a duration of zero or less
\* the due marker.
C31_Breakdown ==
    formatted.pc = "done"
        => IF formatted.diff <= 0
           THEN formatted.text = DueNow
           ELSE /\ formatted.text.parts # <<>>
                /\ formatted.text = Text(DropLeadingZeros(Units(formatted.diff)))

\* ---------------------------------------------------------------- C10
\* C10 (as stated): after two sweeps in succession, the second has created no
\* job and the live timers and the store are those after the first.
SameAsBefore ==
    /\ Now.njobs = hist.before.njobs
    /\ Now.live = hist.before.live
    /\ Now.store = hist.before.store

====
